---------------------------- MODULE Spec2Model ----------------------------
(***************************************************************************)
(* Model of two components of the repository:                              *)
(*                                                                         *)
(*   homeassistant/components/metar_taf/config_flow.py                     *)
(*       validate_input and MetarTafConfigFlow.async_step_user             *)
(*       (specification SpecFlow)                                          *)
(*   homeassistant/components/todo/__init__.py                             *)
(*       TodoListEntity, its update listeners, the entity services and     *)
(*       the websocket commands (specifications Spec, SpecSvc, SpecFind,   *)
(*       SpecGet, SpecApi and SpecSub)                                     *)
(*                                                                         *)
(* Python strings that the code measures or scans (the API key, the ICAO   *)
(* code, the title) are sequences of one-character strings.  None and a    *)
(* string are kept apart by a tag: NoneVal, Str(chars).                    *)
(***************************************************************************)
EXTENDS Integers, Sequences, FiniteSets, TLC

VARIABLES
    \* ---- config flow (config_flow.py)
    entries,        \* config entries created so far, in creation order
    flow_result,    \* what the last call of async_step_user returned
    submitted,      \* the last call of async_step_user had user_input
    validated,      \* the call of validate_input made by the last step
    \* ---- to-do list entity (todo/__init__.py)
    impl,             \* "base": TodoListEntity itself; "concrete": a subclass
    supported_features, \* TodoListEntity._attr_supported_features
    todo_items,       \* TodoListEntity._attr_todo_items
    ha_state,         \* the entity state last written to the state machine
    update_listeners, \* TodoListEntity._update_listeners
    handles,          \* every unsubscribe closure returned so far, with the
                      \* listener it captured and how often it was called
    \* ---- websocket connection
    subscriptions,    \* connection.subscriptions: message id -> handle
    last_id,          \* the id of the last to-do command on the connection
    \* ---- the last operation
    last,             \* the operation, its arguments, exception and response
    pushes,           \* listener calls it made, in order
    sent              \* messages it sent on the connection, in order

flow_vars == <<entries, flow_result, submitted, validated>>
todo_vars == <<impl, supported_features, todo_items, ha_state,
               update_listeners, handles,
               subscriptions, last_id, last, pushes, sent>>

vars == <<entries, flow_result, submitted, validated,
          impl, supported_features, todo_items, ha_state, update_listeners,
          handles, subscriptions, last_id, last, pushes, sent>>

-----------------------------------------------------------------------------
(* Bounds of the model and constants of the program.                       *)

\* len(api_key) != 32, config_flow.py line 42
ApiKeyLen == 32
\* len(airport_icao_code) != 4, config_flow.py line 46
IcaoLen == 4
\* the longest API key submitted
MaxKeyLen == 33
\* the longest ICAO code submitted
MaxIcaoLen == 4

-----------------------------------------------------------------------------
(* Values.                                                                 *)

NoneVal == [none |-> TRUE]
Str(s) == [none |-> FALSE, chars |-> s]
IsNone(v) == v.none

\* Characters an ICAO code is typed from: an upper-case letter, a
\* lower-case letter (and its upper-case form), a digit.
IcaoChars == {"K", "j", "1"}
Alphabetic == {"K", "j", "J"}
KeyChars == {"x"}

SeqsOfLen(S, n) == [1..n -> S]
SeqsUpTo(S, n) == UNION {SeqsOfLen(S, k) : k \in 0..n}

\* API keys: the empty key and the keys around the required length.
ApiKeys ==
    {Str(s) : s \in UNION {SeqsOfLen(KeyChars, k)
                            : k \in {0} \cup ((ApiKeyLen - 1)..MaxKeyLen)}}
IcaoCodes == {Str(s) : s \in SeqsUpTo(IcaoChars, MaxIcaoLen)}

\* user_input: None, or the dict of STEP_USER_DATA_SCHEMA.
UserData ==
    [none : {FALSE},
     api_key : ApiKeys \cup {NoneVal},
     airport_icao_code : IcaoCodes \cup {NoneVal}]
UserInputs == {NoneVal} \cup UserData

-----------------------------------------------------------------------------
(* validate_input, config_flow.py lines 27-60.                             *)

\* isalpha that is content with the first character
isalpha_first(s) == Len(s) >= 1 /\ s[1] \in Alphabetic

\* str.isalpha(): at least one character, and all of them alphabetic
isalpha(s) == Len(s) >= 1 /\ \A i \in 1..Len(s) : s[i] \in Alphabetic

\* f"METAR-TAF ({airport_icao_code})"
TitlePrefix == <<"M", "E", "T", "A", "R", "-", "T", "A", "F", " ", "(">>
TitleOf(code) == Str(TitlePrefix \o code \o <<")">>)

Raise(exc) == [raised |-> exc, title |-> NoneVal]
Return(title) == [raised |-> "", title |-> title]

\* str.upper() on the characters of the model
upper(s) == [i \in 1..Len(s) |-> IF s[i] = "j" THEN "J" ELSE s[i]]

\* validate_input checking the ICAO code before the API key
validate_input_icao_first(data) ==
    LET api_key == data.api_key
        airport_icao_code == data.airport_icao_code
    IN  IF IsNone(api_key) /\ IsNone(airport_icao_code) THEN Raise("InvalidAuth")
        ELSE IF IsNone(airport_icao_code) THEN Raise("TypeError")
        ELSE IF Len(airport_icao_code.chars) # IcaoLen
             THEN Raise("AirportIcaoCodeInvalid")
        ELSE IF ~isalpha(airport_icao_code.chars)
             THEN Raise("AirportIcaoCodeInvalid")
        ELSE IF IsNone(api_key) THEN Raise("TypeError")
        ELSE IF Len(api_key.chars) # ApiKeyLen THEN Raise("ApiKeyInvalidFormat")
        ELSE Return(TitleOf(airport_icao_code.chars))

\* validate_input building the title from the upper-cased ICAO code
validate_input_upper(data) ==
    LET api_key == data.api_key
        airport_icao_code == data.airport_icao_code
    IN  IF IsNone(api_key) /\ IsNone(airport_icao_code) THEN Raise("InvalidAuth")
        ELSE IF IsNone(api_key) THEN Raise("TypeError")
        ELSE IF Len(api_key.chars) # ApiKeyLen THEN Raise("ApiKeyInvalidFormat")
        ELSE IF IsNone(airport_icao_code) THEN Raise("TypeError")
        ELSE IF Len(airport_icao_code.chars) # IcaoLen
             THEN Raise("AirportIcaoCodeInvalid")
        ELSE IF ~isalpha(airport_icao_code.chars)
             THEN Raise("AirportIcaoCodeInvalid")
        ELSE Return(TitleOf(upper(airport_icao_code.chars)))

\* The result of validate_input(hass, data): the exception it raises ("" for
\* none) and the title it returns.  len(None) raises TypeError.
validate_input(data) ==
    LET api_key == data.api_key
        airport_icao_code == data.airport_icao_code
    IN  IF IsNone(api_key) /\ IsNone(airport_icao_code) THEN Raise("InvalidAuth")
        ELSE IF IsNone(api_key) THEN Raise("TypeError")
        ELSE IF Len(api_key.chars) # ApiKeyLen THEN Raise("ApiKeyInvalidFormat")
        ELSE IF IsNone(airport_icao_code) THEN Raise("TypeError")
        ELSE IF Len(airport_icao_code.chars) # IcaoLen
             THEN Raise("AirportIcaoCodeInvalid")
        ELSE IF ~isalpha(airport_icao_code.chars)
             THEN Raise("AirportIcaoCodeInvalid")
        ELSE Return(TitleOf(airport_icao_code.chars))

-----------------------------------------------------------------------------
(* MetarTafConfigFlow.async_step_user, config_flow.py lines 68-99.         *)

\* f"{32323}_{5545}", line 76
UniqueId == "32323_5545"

\* ConfigFlow._abort_if_unique_id_configured: the flow aborts when a config
\* entry with the flow's unique id exists.
_abort_if_unique_id_configured(es, uid) ==
    \E i \in 1..Len(es) : es[i].unique_id = uid

\* The except clauses with "except Exception" moved to the front
ErrorCode_broad_first(exc) == "unknown"

\* The except clauses of lines 82-92, in their order.
ErrorCode(exc) ==
    CASE exc = "CannotConnect" -> "cannot_connect"
      [] exc = "InvalidAuth" -> "invalid_auth"
      [] exc = "AirportIcaoCodeInvalid" -> "airport_icao_code_invalid"
      [] exc = "ApiKeyInvalidFormat" -> "api_key_invalid_format"
      [] OTHER -> "unknown"

NotRun == [ran |-> FALSE]
Ran(data, info) ==
    [ran |-> TRUE, data |-> data, raised |-> info.raised, title |-> info.title]

ShowForm(errors) == [type |-> "form", step_id |-> "user", errors |-> errors]

\* The handler without lines 76-77: no unique id is set, nothing aborts.
async_step_user_no_unique_id(user_input) ==
    IF IsNone(user_input)
    THEN /\ flow_result' = ShowForm({})
         /\ submitted' = FALSE
         /\ validated' = NotRun
         /\ UNCHANGED entries
    ELSE LET info == validate_input(user_input)
         IN  /\ submitted' = TRUE
             /\ validated' = Ran(user_input, info)
             /\ IF info.raised # ""
                THEN /\ flow_result' =
                            ShowForm({<<"base", ErrorCode(info.raised)>>})
                     /\ UNCHANGED entries
                ELSE /\ flow_result' =
                            [type |-> "create_entry", title |-> info.title,
                             data |-> user_input]
                     /\ entries' = Append(entries,
                            [unique_id |-> UniqueId, title |-> info.title,
                             data |-> user_input])

async_step_user(user_input) ==
    IF IsNone(user_input)
    THEN /\ flow_result' = ShowForm({})
         /\ submitted' = FALSE
         /\ validated' = NotRun
         /\ UNCHANGED entries
    ELSE IF _abort_if_unique_id_configured(entries, UniqueId)
    THEN /\ flow_result' = [type |-> "abort", reason |-> "already_configured"]
         /\ submitted' = TRUE
         /\ validated' = NotRun
         /\ UNCHANGED entries
    ELSE LET info == validate_input(user_input)
         IN  /\ submitted' = TRUE
             /\ validated' = Ran(user_input, info)
             /\ IF info.raised # ""
                THEN /\ flow_result' =
                            ShowForm({<<"base", ErrorCode(info.raised)>>})
                     /\ UNCHANGED entries
                ELSE /\ flow_result' =
                            [type |-> "create_entry", title |-> info.title,
                             data |-> user_input]
                     /\ entries' = Append(entries,
                            [unique_id |-> UniqueId, title |-> info.title,
                             data |-> user_input])

StepUser ==
    /\ \E user_input \in UserInputs : async_step_user(user_input)
    /\ UNCHANGED todo_vars

-----------------------------------------------------------------------------
(* To-do items, todo/__init__.py lines 125-136.                            *)

\* None for an atom (a summary, a uid, a status); lists and numbers that may
\* be None carry the tag of NoneVal instead.
None == "None"
Some(x) == [none |-> FALSE, value |-> x]
\* "x or ()", "x or []"
OrEmpty(v) == IF v.none THEN <<>> ELSE v.value
\* the truth value of an optional list: neither None nor empty
Truthy(v) == ~v.none /\ Len(v.value) > 0

NEEDS_ACTION == "needs_action"
COMPLETED == "completed"
Statuses == {NEEDS_ACTION, COMPLETED}

\* the most items a list holds
MaxItems == 2

\* Texts of summaries and uids; "a" is both a summary and a uid.
Summaries == {"a", "b"}
Uids == {"a", "u"}

TodoItem(summary, uid, status) ==
    [cls |-> "TodoItem", summary |-> summary, uid |-> uid, status |-> status]

\* dataclasses.asdict(item)
asdict(item) ==
    [summary |-> item.summary, uid |-> item.uid, status |-> item.status]
AsDicts(items) == [i \in 1..Len(items) |-> asdict(items[i])]

AllItems ==
    {TodoItem(s, u, st) :
        s \in Summaries, u \in Uids \cup {None}, st \in Statuses \cup {None}}

\* The identifiers in use are unique within a list.
UniqueUids(items) ==
    \A i, j \in 1..Len(items) :
        (i # j /\ items[i].uid # None) => items[i].uid # items[j].uid

ItemLists == {l \in SeqsUpTo(AllItems, MaxItems) : UniqueUids(l)}

-----------------------------------------------------------------------------
(* TodoListEntity, todo/__init__.py lines 139-219.                         *)

\* TodoListEntity.state, lines 145-151
state(items) ==
    IF items.none THEN NoneVal
    ELSE Some(Cardinality({i \in 1..Len(items.value) :
                              items.value[i].status = NEEDS_ACTION}))

\* list.remove(x): the list without its first element equal to x
RECURSIVE list_remove(_, _)
list_remove(l, x) ==
    IF l = <<>> THEN <<>>
    ELSE IF Head(l) = x THEN Tail(l)
    ELSE <<Head(l)>> \o list_remove(Tail(l), x)

Contains(l, x) == \E i \in 1..Len(l) : l[i] = x

\* Listeners.  A websocket subscription's listener is the closure
\* todo_item_listener of its command ("ws", the message id).  Other callers
\* of async_subscribe_updates pass callbacks that only record the push
\* ("plain"), that call their own unsubscribe handle when pushed to
\* ("unsub"), or that subscribe a helper listener when first pushed to
\* ("sub", the helper is "child").
WsListener(id) == [kind |-> "ws", id |-> id]
ApiListener(kind, id) == [kind |-> kind, id |-> id]

\* async_subscribe_updates, lines 181-200: the listener is appended and a new
\* closure is returned.
async_subscribe_updates(ls, hs, listener) ==
    [listeners |-> Some(Append(OrEmpty(ls), listener)),
     handles |-> Append(hs, [listener |-> listener, calls |-> 0])]

\* unsubscribe, lines 195-198, of the closure hs[h], on the raw list l
\* (raised: list.remove raises ValueError when the listener is not there).
unsubscribe(ls, hs, h) ==
    LET listener == hs[h].listener
        hs2 == [hs EXCEPT ![h].calls = @ + 1]
    IN  IF ~Truthy(ls)
        THEN [listeners |-> ls, handles |-> hs2, raised |-> ""]
        ELSE IF Contains(ls.value, listener)
        THEN [listeners |-> Some(list_remove(ls.value, listener)),
              handles |-> hs2, raised |-> ""]
        ELSE [listeners |-> ls, handles |-> hs2, raised |-> "ValueError"]

\* websocket_api.event_message(msg["id"], {"items": todo_items})
event_message(id, items) ==
    [id |-> id, type |-> "event", items |-> items]
result_message(id, result) ==
    [id |-> id, type |-> "result", success |-> TRUE, result |-> result]
error_message(id, code) ==
    [id |-> id, type |-> "result", success |-> FALSE, code |-> code]

HandleOf(hs, listener) ==
    CHOOSE h \in 1..Len(hs) : hs[h].listener = listener

\* One call listener(todo_items) of the loop of lines 212-213, on the loop's
\* state st: the live list, the handles, the calls and the messages so far.
CallListener(listener, st) ==
    LET pushed == [st EXCEPT !.pushes =
                      Append(@, [listener |-> listener, items |-> st.items])]
    IN  CASE listener.kind = "ws" ->
                [pushed EXCEPT !.sent =
                    Append(@, event_message(listener.id, st.items))]
          [] listener.kind = "unsub" ->
                LET r == unsubscribe(Some(pushed.listeners), pushed.handles,
                                     HandleOf(pushed.handles, listener))
                IN  [pushed EXCEPT !.listeners = r.listeners.value,
                                   !.handles = r.handles]
          [] listener.kind = "sub" ->
                LET child == ApiListener("child", listener.id)
                IN  IF \E h \in 1..Len(pushed.handles) :
                            pushed.handles[h].listener = child
                    THEN pushed
                    ELSE LET r == async_subscribe_updates(
                                      Some(pushed.listeners), pushed.handles,
                                      child)
                         IN  [pushed EXCEPT !.listeners = r.listeners.value,
                                            !.handles = r.handles]
          [] OTHER -> pushed

\* "for listener in self._update_listeners": Python's list iterator keeps an
\* index into the live list, so the loop sees what the calls do to the list.
RECURSIVE ListenerLoop(_, _)
ListenerLoop(i, st) ==
    IF i > Len(st.listeners) THEN st
    ELSE ListenerLoop(i + 1, CallListener(st.listeners[i], st))

\* async_update_listeners with a loop that starts at the second listener
async_update_listeners_skip_first(ls, hs, items) ==
    IF ~Truthy(ls)
    THEN [listeners |-> ls, handles |-> hs, pushes |-> <<>>, sent |-> <<>>]
    ELSE LET st == ListenerLoop(2,
                       [listeners |-> ls.value, handles |-> hs,
                        pushes |-> <<>>, sent |-> <<>>,
                        items |-> AsDicts(OrEmpty(items))])
         IN  [listeners |-> Some(st.listeners), handles |-> st.handles,
              pushes |-> st.pushes, sent |-> st.sent]

\* async_update_listeners, lines 202-213
async_update_listeners(ls, hs, items) ==
    IF ~Truthy(ls)
    THEN [listeners |-> ls, handles |-> hs, pushes |-> <<>>, sent |-> <<>>]
    ELSE LET st == ListenerLoop(1,
                       [listeners |-> ls.value, handles |-> hs,
                        pushes |-> <<>>, sent |-> <<>>,
                        items |-> AsDicts(OrEmpty(items))])
         IN  [listeners |-> Some(st.listeners), handles |-> st.handles,
              pushes |-> st.pushes, sent |-> st.sent]

\* Event messages among msgs for subscription id.
EventsFor(msgs, id) ==
    Cardinality({i \in 1..Len(msgs) :
                    msgs[i].type = "event" /\ msgs[i].id = id})

\* _async_write_ha_state, lines 215-219, with the items now `items`: the
\* state is written, then the listeners are pushed to.
WriteState(items) ==
    LET r == async_update_listeners(update_listeners, handles, items)
    IN  /\ ha_state' = state(items)
        /\ update_listeners' = r.listeners
        /\ handles' = r.handles
        /\ pushes' = r.pushes
        /\ sent' = r.sent

NoWrite ==
    /\ pushes' = <<>>
    /\ sent' = <<>>
    /\ UNCHANGED <<ha_state, update_listeners, handles>>

Op(op, args, exc, ext, resp) ==
    [op |-> op, args |-> args, exc |-> exc, ext |-> ext, resp |-> resp]

-----------------------------------------------------------------------------
(* The extension points, lines 158-179.  The base class raises             *)
(* NotImplementedError.  A concrete list keeps its items in                *)
(* _attr_todo_items: it stores a created item at the end, as given or with *)
(* an unused uid, applies an update to the item with the given uid,        *)
(* deletes the items with the given uids, and writes its state after each. *)

\* What each extension point of TodoListEntity itself raises.

\* A base method that returns instead of raising.
async_create_todo_item_pass(item) == ""

async_create_todo_item(item) == "NotImplementedError"
async_update_todo_item(item) == "NotImplementedError"
async_delete_todo_items(uids) == "NotImplementedError"
async_move_todo_item(uid, previous_uid) == "NotImplementedError"

ExtensionPoints ==
    {"async_create_todo_item", "async_update_todo_item",
     "async_delete_todo_items", "async_move_todo_item"}

\* TodoListEntityFeature.MOVE_TODO_ITEM and one of the other flags
MOVE_TODO_ITEM == "MOVE_TODO_ITEM"
DELETE_TODO_ITEM == "DELETE_TODO_ITEM"

\* supported_features: None, or the set of the flags that are set
FeatureSets ==
    {NoneVal, Some({}), Some({DELETE_TODO_ITEM}),
     Some({DELETE_TODO_ITEM, MOVE_TODO_ITEM})}

\* The test of lines 311-314 for a flag: supported_features is neither None
\* nor 0, and has the flag.
Supports(features, flag) ==
    /\ ~features.none
    /\ features.value # {}
    /\ features.value \cap {flag} # {}

\* A direct call of an extension point of the base class.
BaseExtensionPoint ==
    /\ impl = "base"
    /\ \/ \E item \in AllItems :
            last' = Op("async_create_todo_item", <<item>>,
                       async_create_todo_item(item), <<>>, <<>>)
       \/ \E item \in AllItems :
            last' = Op("async_update_todo_item", <<item>>,
                       async_update_todo_item(item), <<>>, <<>>)
       \/ \E uids \in SeqsUpTo(Uids, 1) :
            last' = Op("async_delete_todo_items", <<uids>>,
                       async_delete_todo_items(uids), <<>>, <<>>)
       \/ \E uid \in Uids, previous_uid \in Uids \cup {None} :
            last' = Op("async_move_todo_item", <<uid, previous_uid>>,
                       async_move_todo_item(uid, previous_uid), <<>>, <<>>)
    /\ NoWrite
    /\ UNCHANGED <<flow_vars, impl, supported_features, todo_items,
                   subscriptions, last_id>>

\* The concrete list.
UsedUids(items) == {items[i].uid : i \in 1..Len(items)} \ {None}

ConcreteCreate(items, item) ==
    {Append(items, [item EXCEPT !.uid = u]) :
        u \in {item.uid} \cup (Uids \ UsedUids(items))}

ConcreteUpdate(items, item) ==
    IF \E i \in 1..Len(items) : items[i].uid = item.uid
    THEN LET k == CHOOSE i \in 1..Len(items) :
                    /\ items[i].uid = item.uid
                    /\ \A j \in 1..(i - 1) : items[j].uid # item.uid
         IN  [items EXCEPT
                ![k].summary = IF item.summary = None THEN @ ELSE item.summary,
                ![k].status = IF item.status = None THEN @ ELSE item.status]
    ELSE items

RECURSIVE Filter(_, _)
Filter(l, keep) ==
    IF l = <<>> THEN <<>>
    ELSE IF Head(l) \in keep THEN <<Head(l)>> \o Filter(Tail(l), keep)
    ELSE Filter(Tail(l), keep)

ConcreteDelete(items, uids) ==
    Filter(items, {it \in AllItems : ~Contains(uids, it.uid)})

-----------------------------------------------------------------------------
(* The entity services, lines 333-396.                                     *)

\* the texts a service call names an item by
Texts == Summaries \cup Uids

\* the longest list of texts one remove_item call names
MaxTexts == 2

\* The scan keeping the last match instead of returning at the first.
_find_by_uid_or_summary_last(value, items) ==
    LET l == OrEmpty(items)
        hits == {i \in 1..Len(l) : value = l[i].uid \/ value = l[i].summary}
    IN  IF hits = {} THEN 0
        ELSE CHOOSE i \in hits : \A j \in hits : i >= j

\* _find_by_uid_or_summary, lines 333-340: the index of the first item whose
\* uid or summary is value, 0 for None.
_find_by_uid_or_summary(value, items) ==
    LET l == OrEmpty(items)
        hits == {i \in 1..Len(l) : value = l[i].uid \/ value = l[i].summary}
    IN  IF hits = {} THEN 0
        ELSE CHOOSE i \in hits : \A j \in hits : i <= j

\* add_item creating the item without a status
NewTodoItem_no_status(text) == TodoItem(text, None, None)

\* The item add_item creates, lines 345-347.
NewTodoItem(text) == TodoItem(text, None, NEEDS_ACTION)

_async_add_todo_item(text) ==
    LET item == NewTodoItem(text)
        ext == <<[name |-> "async_create_todo_item", item |-> item]>>
    IN  IF impl = "base"
        THEN /\ last' = Op("add_item", <<text>>, "NotImplementedError", ext, <<>>)
             /\ UNCHANGED todo_items
             /\ NoWrite
        ELSE /\ Len(OrEmpty(todo_items)) < MaxItems
             /\ \E new \in ConcreteCreate(OrEmpty(todo_items), item) :
                    /\ todo_items' = Some(new)
                    /\ WriteState(Some(new))
             /\ last' = Op("add_item", <<text>>, "", ext, <<>>)

\* The item update_item passes on, lines 357-359.
UpdateOf(found, rename, status) == TodoItem(rename, found.uid, status)

_async_update_todo_item(text, rename, status) ==
    LET k == _find_by_uid_or_summary(text, todo_items)
    IN  IF k = 0
        THEN /\ last' = Op("update_item", <<text, rename, status>>,
                           "ValueError", <<>>, <<>>)
             /\ UNCHANGED todo_items
             /\ NoWrite
        ELSE LET update_item == UpdateOf(todo_items.value[k], rename, status)
                 ext == <<[name |-> "async_update_todo_item",
                           item |-> update_item]>>
             IN  IF impl = "base"
                 THEN /\ last' = Op("update_item", <<text, rename, status>>,
                                    "NotImplementedError", ext, <<>>)
                      /\ UNCHANGED todo_items
                      /\ NoWrite
                 ELSE LET new == Some(ConcreteUpdate(todo_items.value,
                                                     update_item))
                      IN  /\ todo_items' = new
                          /\ WriteState(new)
                          /\ last' = Op("update_item",
                                        <<text, rename, status>>, "", ext, <<>>)

\* get_items testing the filter with "is None": an empty filter keeps nothing.
GetItems_none_only(items, statuses) ==
    LET l == OrEmpty(items)
        keep == {it \in AllItems :
                    statuses.none \/ Contains(statuses.value, it.status)}
    IN  AsDicts(Filter(l, keep))

\* The items get_items returns, lines 379-385: statuses is
\* call.data.get("status").
GetItems(items, statuses) ==
    LET l == OrEmpty(items)
        keep == {it \in AllItems :
                    ~Truthy(statuses) \/ Contains(statuses.value, it.status)}
    IN  AsDicts(Filter(l, keep))

\* _async_get_todo_items, lines 375-385.
_async_get_todo_items(statuses) ==
    /\ last' = Op("get_items", <<statuses>>, "", <<>>,
                  GetItems(todo_items, statuses))
    /\ UNCHANGED todo_items
    /\ NoWrite

\* The uids remove_completed_items deletes, lines 390-394.
CompletedUids(items) ==
    LET l == OrEmpty(items)
        done == Filter(l, {it \in AllItems :
                              it.status = COMPLETED /\ it.uid # None})
    IN  [i \in 1..Len(done) |-> done[i].uid]

_async_remove_completed_items ==
    LET uids == CompletedUids(todo_items)
        ext == <<[name |-> "async_delete_todo_items", uids |-> uids]>>
    IN  IF uids = <<>>
        THEN /\ last' = Op("remove_completed_items", <<>>, "", <<>>, <<>>)
             /\ UNCHANGED todo_items
             /\ NoWrite
        ELSE IF impl = "base"
        THEN /\ last' = Op("remove_completed_items", <<>>,
                           "NotImplementedError", ext, <<>>)
             /\ UNCHANGED todo_items
             /\ NoWrite
        ELSE LET new == Some(ConcreteDelete(todo_items.value, uids))
             IN  /\ todo_items' = new
                 /\ WriteState(new)
                 /\ last' = Op("remove_completed_items", <<>>, "", ext, <<>>)

\* The loop of remove_item skipping a text that resolves to nothing.
RECURSIVE ResolveUids_skip_missing(_, _)
ResolveUids_skip_missing(texts, items) ==
    IF texts = <<>> THEN [raised |-> "", uids |-> <<>>]
    ELSE LET k == _find_by_uid_or_summary(Head(texts), items)
             rest == ResolveUids_skip_missing(Tail(texts), items)
         IN  IF k = 0 \/ OrEmpty(items)[k].uid = None
             THEN rest
             ELSE [rest EXCEPT !.uids = <<OrEmpty(items)[k].uid>> \o @]

\* The loop of remove_item, lines 366-371: the uids found for the texts, in
\* their order, or ValueError at the first text that resolves to no item or
\* to an item without a uid.
RECURSIVE ResolveUids(_, _)
ResolveUids(texts, items) ==
    IF texts = <<>> THEN [raised |-> "", uids |-> <<>>]
    ELSE LET k == _find_by_uid_or_summary(Head(texts), items)
         IN  IF k = 0 \/ OrEmpty(items)[k].uid = None
             THEN [raised |-> "ValueError", uids |-> <<>>]
             ELSE LET rest == ResolveUids(Tail(texts), items)
                  IN  IF rest.raised # "" THEN rest
                      ELSE [rest EXCEPT !.uids = <<OrEmpty(items)[k].uid>> \o @]

\* _async_remove_todo_items, lines 364-372.
_async_remove_todo_items(texts) ==
    LET r == ResolveUids(texts, todo_items)
        ext == <<[name |-> "async_delete_todo_items", uids |-> r.uids]>>
    IN  IF r.raised # ""
        THEN /\ last' = Op("remove_item", <<texts>>, r.raised, <<>>, <<>>)
             /\ UNCHANGED todo_items
             /\ NoWrite
        ELSE IF impl = "base"
        THEN /\ last' = Op("remove_item", <<texts>>, "NotImplementedError",
                           ext, <<>>)
             /\ UNCHANGED todo_items
             /\ NoWrite
        ELSE LET new == Some(ConcreteDelete(OrEmpty(todo_items), r.uids))
             IN  /\ todo_items' = new
                 /\ WriteState(new)
                 /\ last' = Op("remove_item", <<texts>>, "", ext, <<>>)

StatusFilters ==
    {NoneVal} \cup {Some(f) : f \in SeqsUpTo(Statuses, 1)}
             \cup {Some(<<NEEDS_ACTION, COMPLETED>>)}

ServiceCommon ==
    UNCHANGED <<flow_vars, impl, supported_features, subscriptions, last_id>>

AddItem ==
    /\ \E text \in Summaries : _async_add_todo_item(text)
    /\ ServiceCommon

UpdateItem ==
    /\ \E text \in Texts, rename \in Summaries \cup {None},
          status \in Statuses \cup {None} :
            /\ rename # None \/ status # None
            /\ _async_update_todo_item(text, rename, status)
    /\ ServiceCommon

GetTodoItems ==
    /\ \E statuses \in StatusFilters : _async_get_todo_items(statuses)
    /\ ServiceCommon

RemoveCompletedItems ==
    /\ _async_remove_completed_items
    /\ ServiceCommon

RemoveItem ==
    /\ \E texts \in SeqsUpTo(Texts, MaxTexts) : _async_remove_todo_items(texts)
    /\ ServiceCommon

-----------------------------------------------------------------------------
(* The websocket commands, lines 222-262.                                  *)

\* the most to-do commands a connection sends
MaxMsgId == 2

EntityId == "todo.list"
EntityIds == {EntityId, "todo.missing"}
\* component.get_entity(entity_id) finds the one entity of the component
get_entity(entity_id) == entity_id = EntityId

Without(f, k) == [x \in DOMAIN f \ {k} |-> f[x]]

websocket_handle_subscribe_todo_items(entity_id) ==
    LET id == last_id + 1
    IN  /\ last_id < MaxMsgId
        /\ last_id' = id
        /\ UNCHANGED <<todo_items, ha_state>>
        /\ IF ~get_entity(entity_id)
           THEN /\ last' = Op("todo/item/subscribe", <<id, entity_id>>, "",
                              <<>>, <<>>)
                /\ sent' = <<error_message(id, "invalid_entity_id")>>
                /\ pushes' = <<>>
                /\ UNCHANGED <<update_listeners, handles, subscriptions>>
           ELSE LET \* lines 256-258, with nothing sent yet
                    sub == async_subscribe_updates(update_listeners, handles,
                                                   WsListener(id))
                    sent1 == <<>>
                    stored == [stored |-> id, messages_before |-> Len(sent1)]
                    \* line 259
                    sent2 == Append(sent1, result_message(id, None))
                    \* line 262
                    r == async_update_listeners(sub.listeners, sub.handles,
                                                todo_items)
                IN  /\ last' = Op("todo/item/subscribe", <<id, entity_id>>, "",
                                  <<>>, <<stored>>)
                    /\ subscriptions' =
                            (id :> Len(sub.handles)) @@ subscriptions
                    /\ sent' = sent2 \o r.sent
                    /\ pushes' = r.pushes
                    /\ update_listeners' = r.listeners
                    /\ handles' = r.handles

\* unsubscribe_events, or the connection closing: the handle stored for the
\* subscription is taken out of connection.subscriptions and called.
unsubscribe_events(id) ==
    LET r == unsubscribe(update_listeners, handles, subscriptions[id])
    IN  /\ subscriptions' = Without(subscriptions, id)
        /\ update_listeners' = r.listeners
        /\ handles' = r.handles
        /\ last' = Op("unsubscribe_events", <<id>>, r.raised, <<>>, <<>>)
        /\ pushes' = <<>>
        /\ sent' = <<>>
        /\ UNCHANGED <<todo_items, ha_state, last_id>>

WsSubscribe ==
    /\ \E entity_id \in EntityIds :
            websocket_handle_subscribe_todo_items(entity_id)
    /\ UNCHANGED <<flow_vars, impl, supported_features>>

WsUnsubscribe ==
    /\ \E id \in DOMAIN subscriptions : unsubscribe_events(id)
    /\ UNCHANGED <<flow_vars, impl, supported_features>>

\* websocket_handle_todo_item_list, lines 272-290.
websocket_handle_todo_item_list_empty(entity_id) ==
    LET id == last_id + 1
    IN  /\ last_id < MaxMsgId
        /\ last_id' = id
        /\ last' = Op("todo/item/list", <<id, entity_id>>, "", <<>>, <<>>)
        /\ sent' = <<result_message(id,
                        [items |-> IF get_entity(entity_id)
                                   THEN AsDicts(OrEmpty(todo_items))
                                   ELSE <<>>])>>
        /\ pushes' = <<>>
        /\ UNCHANGED <<todo_items, ha_state, update_listeners, handles,
                       subscriptions>>

websocket_handle_todo_item_list(entity_id) ==
    LET id == last_id + 1
    IN  /\ last_id < MaxMsgId
        /\ last_id' = id
        /\ last' = Op("todo/item/list", <<id, entity_id>>, "", <<>>, <<>>)
        /\ sent' = IF ~get_entity(entity_id)
                   THEN <<error_message(id, "not_found")>>
                   ELSE <<result_message(id,
                            [items |-> AsDicts(OrEmpty(todo_items))])>>
        /\ pushes' = <<>>
        /\ UNCHANGED <<todo_items, ha_state, update_listeners, handles,
                       subscriptions>>

\* The concrete list's async_move_todo_item: the item with the uid goes
\* behind the item with previous_uid, to the front when that is None; an
\* unknown uid is a HomeAssistantError.
ConcreteMoveFails(items, uid, previous_uid) ==
    \/ ~\E i \in 1..Len(items) : items[i].uid = uid
    \/ /\ previous_uid # None
       /\ ~\E i \in 1..Len(items) : items[i].uid = previous_uid
    \/ previous_uid = uid

ConcreteMove(items, uid, previous_uid) ==
    LET k == CHOOSE i \in 1..Len(items) : items[i].uid = uid
        rest == Filter(items, {it \in AllItems : it.uid # uid})
        p == IF previous_uid = None THEN 0
             ELSE CHOOSE i \in 1..Len(rest) : rest[i].uid = previous_uid
    IN  SubSeq(rest, 1, p) \o <<items[k]>> \o SubSeq(rest, p + 1, Len(rest))

\* The test of lines 311-314 letting an entity without features through.
MoveSupported_none_passes(features) ==
    features.none \/ Supports(features, MOVE_TODO_ITEM)

\* lines 311-314
MoveSupported(features) == Supports(features, MOVE_TODO_ITEM)

\* websocket_handle_todo_item_move, lines 302-330: previous_uid is
\* msg.get("previous_uid"), None when the message has none.
websocket_handle_todo_item_move(entity_id, uid, previous_uid) ==
    LET id == last_id + 1
        args == <<id, entity_id, uid, previous_uid>>
        ext == <<[name |-> "async_move_todo_item", uid |-> uid,
                  previous_uid |-> previous_uid]>>
    IN  /\ last_id < MaxMsgId
        /\ last_id' = id
        /\ UNCHANGED subscriptions
        /\ IF ~get_entity(entity_id)
           THEN /\ last' = Op("todo/item/move", args, "", <<>>, <<>>)
                /\ sent' = <<error_message(id, "not_found")>>
                /\ pushes' = <<>>
                /\ UNCHANGED <<todo_items, ha_state, update_listeners, handles>>
           ELSE IF ~MoveSupported(supported_features)
           THEN /\ last' = Op("todo/item/move", args, "", <<>>, <<>>)
                /\ sent' = <<error_message(id, "not_supported")>>
                /\ pushes' = <<>>
                /\ UNCHANGED <<todo_items, ha_state, update_listeners, handles>>
           ELSE IF impl = "base"
           THEN \* NotImplementedError is no HomeAssistantError: it leaves
                \* the handler, which sends nothing
                /\ last' = Op("todo/item/move", args,
                              async_move_todo_item(uid, previous_uid), ext,
                              <<>>)
                /\ sent' = <<>>
                /\ pushes' = <<>>
                /\ UNCHANGED <<todo_items, ha_state, update_listeners, handles>>
           ELSE IF ConcreteMoveFails(OrEmpty(todo_items), uid, previous_uid)
           THEN /\ last' = Op("todo/item/move", args, "HomeAssistantError",
                              ext, <<>>)
                /\ sent' = <<error_message(id, "failed")>>
                /\ pushes' = <<>>
                /\ UNCHANGED <<todo_items, ha_state, update_listeners, handles>>
           ELSE LET new == Some(ConcreteMove(OrEmpty(todo_items), uid,
                                             previous_uid))
                    r == async_update_listeners(update_listeners, handles, new)
                IN  /\ last' = Op("todo/item/move", args, "", ext, <<>>)
                    /\ todo_items' = new
                    /\ ha_state' = state(new)
                    /\ update_listeners' = r.listeners
                    /\ handles' = r.handles
                    /\ pushes' = r.pushes
                    /\ sent' = r.sent \o <<result_message(id, None)>>

WsList ==
    /\ \E entity_id \in EntityIds : websocket_handle_todo_item_list(entity_id)
    /\ UNCHANGED <<flow_vars, impl, supported_features>>

WsMove ==
    /\ \E entity_id \in EntityIds, uid \in Uids,
          previous_uid \in Uids \cup {None} :
            websocket_handle_todo_item_move(entity_id, uid, previous_uid)
    /\ UNCHANGED <<flow_vars, impl, supported_features>>

\* _async_write_ha_state on its own: the entity writes its state (a poll, a
\* refresh) with the items as they are.
_async_write_ha_state ==
    /\ WriteState(todo_items)
    /\ last' = Op("write_state", <<>>, "", <<>>, <<>>)
    /\ UNCHANGED <<todo_items, flow_vars, impl, supported_features,
                   subscriptions, last_id>>

-----------------------------------------------------------------------------
(* Callers of the listener interface other than the websocket command.     *)

\* the most unsubscribe closures handed out to such callers
MaxHandles == 2
\* the most calls of one unsubscribe closure
MaxCalls == 2

ApiListeners ==
    {ApiListener("plain", 1), ApiListener("plain", 2),
     ApiListener("unsub", 3), ApiListener("sub", 4)}

Registered(hs, listener) == \E h \in 1..Len(hs) : hs[h].listener = listener

\* A caller subscribes a callback; the same "plain" callback may be
\* subscribed again.
ApiSubscribe ==
    /\ \E listener \in ApiListeners :
        /\ Len(handles) < MaxHandles
        /\ listener.kind # "plain" => ~Registered(handles, listener)
        /\ LET r == async_subscribe_updates(update_listeners, handles, listener)
           IN  /\ update_listeners' = r.listeners
               /\ handles' = r.handles
        /\ last' = Op("subscribe", <<listener>>, "", <<>>, <<>>)
    /\ pushes' = <<>>
    /\ sent' = <<>>
    /\ UNCHANGED <<flow_vars, impl, supported_features, todo_items, ha_state,
                   subscriptions, last_id>>

\* A caller calls an unsubscribe closure it holds, for the first time or again.
ApiUnsubscribe ==
    /\ \E h \in 1..Len(handles) :
        /\ handles[h].calls < MaxCalls
        /\ LET r == unsubscribe(update_listeners, handles, h)
           IN  /\ update_listeners' = r.listeners
               /\ handles' = r.handles
               /\ last' = Op("unsubscribe", <<h>>, r.raised, <<>>, <<>>)
    /\ pushes' = <<>>
    /\ sent' = <<>>
    /\ UNCHANGED <<flow_vars, impl, supported_features, todo_items, ha_state,
                   subscriptions, last_id>>

-----------------------------------------------------------------------------
(* Specifications.                                                         *)

InitFlowVars ==
    /\ entries = <<>>
    /\ flow_result = [type |-> "none"]
    /\ submitted = FALSE
    /\ validated = NotRun

InitEntity(impls, lists, features) ==
    /\ impl \in impls
    /\ supported_features \in features
    /\ todo_items \in IF impl = "base" THEN {NoneVal} ELSE lists
    /\ ha_state = state(todo_items)
    /\ update_listeners = NoneVal
    /\ handles = <<>>
    /\ subscriptions = <<>>
    /\ last_id = 0
    /\ last = Op("init", <<>>, "", <<>>, <<>>)
    /\ pushes = <<>>
    /\ sent = <<>>

\* The config flow.
InitFlow ==
    /\ InitFlowVars
    /\ InitEntity({"base"}, {NoneVal}, {NoneVal})

NextFlow == StepUser

SpecFlow == InitFlow /\ [][NextFlow]_vars

\* Lists built by add_item alone.
RECURSIVE AddedLists(_)
AddedLists(n) ==
    IF n = 0 THEN {<<>>}
    ELSE LET shorter == AddedLists(n - 1)
         IN  shorter \cup
             UNION {ConcreteCreate(l, NewTodoItem(t)) :
                        l \in {x \in shorter : Len(x) = n - 1}, t \in Summaries}

\* The websocket commands on a list that items are added to.
Init ==
    /\ InitFlowVars
    /\ InitEntity({"base", "concrete"},
                  {NoneVal} \cup {Some(l) : l \in AddedLists(MaxItems)},
                  FeatureSets)

Next ==
    \/ WsSubscribe
    \/ WsUnsubscribe
    \/ WsList
    \/ WsMove
    \/ BaseExtensionPoint
    \/ AddItem
    \/ GetTodoItems
    \/ _async_write_ha_state

Spec == Init /\ [][Next]_vars

\* The entity services on a list with any items.
InitSvc ==
    /\ InitFlowVars
    /\ InitEntity({"base", "concrete"},
                  {NoneVal} \cup {Some(l) : l \in ItemLists}, {NoneVal})

NextSvc ==
    \/ AddItem
    \/ UpdateItem
    \/ GetTodoItems
    \/ RemoveCompletedItems
    \/ _async_write_ha_state

SpecSvc == InitSvc /\ [][NextSvc]_vars

\* The services that look an item up by text, on lists of any summaries and
\* uids; the lookup does not read the status, which starts as needs_action.
InitFind ==
    /\ InitFlowVars
    /\ InitEntity({"base", "concrete"},
                  {NoneVal} \cup
                  {Some(l) : l \in {x \in ItemLists :
                        \A i \in 1..Len(x) : x[i].status = NEEDS_ACTION}},
                  {NoneVal})

NextFind ==
    \/ UpdateItem
    \/ RemoveItem

SpecFind == InitFind /\ [][NextFind]_vars

\* get_items on any list, with websocket subscribers.
InitGet ==
    /\ InitFlowVars
    /\ InitEntity({"base", "concrete"},
                  {NoneVal} \cup {Some(l) : l \in ItemLists}, {NoneVal})

NextGet ==
    \/ WsSubscribe
    \/ GetTodoItems

SpecGet == InitGet /\ [][NextGet]_vars

\* The listener interface of a concrete list, driven by any caller.
InitApi ==
    /\ InitFlowVars
    /\ InitEntity({"concrete"}, {NoneVal, Some(<<>>)}, {NoneVal})

NextApi ==
    \/ ApiSubscribe
    \/ ApiUnsubscribe
    \/ AddItem
    \/ _async_write_ha_state

SpecApi == InitApi /\ [][NextApi]_vars

\* The subscribe command on an entity that other callers subscribe to.
InitSub ==
    /\ InitFlowVars
    /\ InitEntity({"concrete"}, {NoneVal, Some(<<>>)}, {NoneVal})

NextSub ==
    \/ ApiSubscribe
    \/ WsSubscribe
    \/ AddItem

SpecSub == InitSub /\ [][NextSub]_vars

-----------------------------------------------------------------------------
(* Properties of the config flow (SpecFlow).                               *)

\* The last step called validate_input with a string for both fields.
ValidatedStrings ==
    /\ validated.ran
    /\ ~IsNone(validated.data.api_key)
    /\ ~IsNone(validated.data.airport_icao_code)

KeyOf(v) == v.data.api_key.chars
IcaoOf(v) == v.data.airport_icao_code.chars
HasNonAlphabetic(s) == \E i \in 1..Len(s) : s[i] \notin Alphabetic

\* C1: for every API key string whose length is not 32, with any ICAO code
\* string, validate_input raises ApiKeyInvalidFormat and returns no title.
C1_BadKeyLengthIsInvalidFormat ==
    (ValidatedStrings /\ Len(KeyOf(validated)) # 32)
        => (validated.raised = "ApiKeyInvalidFormat" /\ IsNone(validated.title))

\* validate_input ran on a key of the wrong length and an ICAO code that is
\* invalid too.
C1_Witness ==
    /\ ValidatedStrings
    /\ Len(KeyOf(validated)) = 31
    /\ Len(IcaoOf(validated)) = 3
    /\ HasNonAlphabetic(IcaoOf(validated))
    /\ validated.raised = "ApiKeyInvalidFormat"

\* C2 as stated: for every ICAO code string whose length is not 4 or that
\* holds a non-alphabetic character, validate_input raises
\* AirportIcaoCodeInvalid, whatever the API key.
C2_BadIcaoIsInvalid_AnyKey ==
    (ValidatedStrings
        /\ (Len(IcaoOf(validated)) # 4 \/ HasNonAlphabetic(IcaoOf(validated))))
        => validated.raised = "AirportIcaoCodeInvalid"

\* C2 as amended: for every ICAO code string whose length is not 4 or that
\* holds a non-alphabetic character, submitted with an API key string of
\* length 32, validate_input raises AirportIcaoCodeInvalid and returns no
\* title.
C2_BadIcaoIsInvalid_GoodKey ==
    (ValidatedStrings
        /\ Len(KeyOf(validated)) = 32
        /\ (Len(IcaoOf(validated)) # 4 \/ HasNonAlphabetic(IcaoOf(validated))))
        => (validated.raised = "AirportIcaoCodeInvalid"
                /\ IsNone(validated.title))

\* validate_input ran on a good key and a four-character ICAO code whose
\* first character is a letter and whose last is a digit.
C2_Witness ==
    /\ ValidatedStrings
    /\ Len(KeyOf(validated)) = 32
    /\ Len(IcaoOf(validated)) = 4
    /\ IcaoOf(validated)[1] = "K"
    /\ IcaoOf(validated)[4] = "1"
    /\ validated.raised = "AirportIcaoCodeInvalid"

\* "METAR-TAF (<code>)" for a four-character code, spelled out
ExpectedTitle(code) ==
    Str(<<"M", "E", "T", "A", "R", "-", "T", "A", "F", " ", "(",
          code[1], code[2], code[3], code[4], ")">>)

\* C3: for every API key string of length 32 and every ICAO code of exactly
\* four alphabetic characters, validate_input raises nothing and returns the
\* title "METAR-TAF (<code>)" with the code exactly as submitted.
C3_ValidInputGivesTitle ==
    (ValidatedStrings
        /\ Len(KeyOf(validated)) = 32
        /\ Len(IcaoOf(validated)) = 4
        /\ ~HasNonAlphabetic(IcaoOf(validated)))
        => (validated.raised = ""
                /\ validated.title = ExpectedTitle(IcaoOf(validated)))

\* validate_input returned the title of a code with a lower-case letter.
C3_Witness ==
    /\ ValidatedStrings
    /\ validated.raised = ""
    /\ IcaoOf(validated) = <<"K", "j", "j", "K">>
    /\ validated.title = ExpectedTitle(<<"K", "j", "j", "K">>)

\* the error code the form shows for each kind of failure
ExpectedError(exc) ==
    IF exc = "CannotConnect" THEN "cannot_connect"
    ELSE IF exc = "InvalidAuth" THEN "invalid_auth"
    ELSE IF exc = "AirportIcaoCodeInvalid" THEN "airport_icao_code_invalid"
    ELSE IF exc = "ApiKeyInvalidFormat" THEN "api_key_invalid_format"
    ELSE "unknown"

C4_Step ==
    /\ entries' # entries =>
        /\ submitted'
        /\ validated'.ran
        /\ validated'.raised = ""
        /\ flow_result'.type = "create_entry"
        /\ flow_result'.title = validated'.title
        /\ Len(entries') = Len(entries) + 1
        /\ entries'[Len(entries')].data = validated'.data
        /\ entries'[Len(entries')].title = validated'.title
    /\ (validated'.ran /\ validated'.raised # "") =>
        /\ entries' = entries
        /\ flow_result'.type = "form"
        /\ flow_result'.errors =
                {<<"base", ExpectedError(validated'.raised)>>}
    /\ ~submitted' =>
        /\ entries' = entries
        /\ flow_result'.type = "form"
        /\ flow_result'.errors = {}

\* C4: in every call of the user step, a config entry is created only when
\* validation succeeded; when validation failed no entry is created and the
\* form is shown again with exactly one error, under "base", that names the
\* kind of failure ("unknown" for an unexpected exception); a call without
\* input shows the form without errors.
C4_EntryOnlyOnSuccess_ErrorsOtherwise == [][C4_Step]_vars

\* A submission failed with an unexpected exception (len(None)) and the
\* form came back with "unknown"; no entry exists.
C4_Witness ==
    /\ submitted
    /\ validated.ran
    /\ validated.raised = "TypeError"
    /\ flow_result.type = "form"
    /\ flow_result.errors = {<<"base", "unknown">>}
    /\ entries = <<>>

-----------------------------------------------------------------------------
(* Properties of the websocket subscription (Spec).                        *)

\* The payloads of the event messages among msgs for subscription id.
EventItems(msgs, id) ==
    {msgs[i].items : i \in {j \in 1..Len(msgs) :
                                msgs[j].type = "event" /\ msgs[j].id = id}}

\* The last command was a todo/item/subscribe that registered subscription id.
Subscribed(id) ==
    /\ last.op = "todo/item/subscribe"
    /\ last.args[1] = id
    /\ id \in DOMAIN subscriptions

C5_OriginalStep ==
    \A id \in DOMAIN subscriptions :
        (Subscribed(id) /\ last'.op = "add_item" /\ last'.exc = "") =>
            /\ EventsFor(sent, id) + EventsFor(sent', id) = 1
            /\ EventItems(sent', id) = {AsDicts(todo_items'.value)}

C5_AmendedStep ==
    (last'.op = "add_item" /\ last'.exc = "") =>
        \A id \in DOMAIN subscriptions :
            \* the add pushes exactly once, the full updated collection
            /\ EventsFor(sent', id) = 1
            /\ EventItems(sent', id) = {AsDicts(todo_items'.value)}
            /\ Len(todo_items'.value) = Len(OrEmpty(todo_items)) + 1
            /\ todo_items'.value[Len(todo_items'.value)].summary = last'.args[1]
            \* and the subscribe command before it had pushed once already,
            \* the collection as it was then
            /\ Subscribed(id) =>
                /\ EventsFor(sent, id) + EventsFor(sent', id) = 2
                /\ EventItems(sent, id) = {AsDicts(OrEmpty(todo_items))}

-----------------------------------------------------------------------------
(* Properties of the listener interface (SpecApi).                         *)

Count(l, x) == Cardinality({i \in 1..Len(l) : l[i] = x})
PushesTo(ps, listener) ==
    Cardinality({i \in 1..Len(ps) : ps[i].listener = listener})
AnyListeners == ApiListeners \cup {ApiListener("child", 4)}

C6_Step ==
    (last'.op \in {"write_state", "add_item"} /\ last'.exc = "") =>
        /\ \A listener \in AnyListeners :
                Count(OrEmpty(update_listeners), listener) > 0 =>
                    PushesTo(pushes', listener)
                        = Count(OrEmpty(update_listeners), listener)
        /\ \A i \in 1..Len(pushes') :
                pushes'[i].items = AsDicts(OrEmpty(todo_items'))

\* C6: on every state write, every listener registered at that moment is
\* called exactly once (once for each of its registrations) with the full
\* current item collection, also when listeners subscribe or unsubscribe
\* from inside their callback.
C6_EveryListenerPushedOnce == [][C6_Step]_vars

\* C7: a registration exists from the call of async_subscribe_updates until
\* its own unsubscribe handle is called: each callback is in the listener
\* list exactly as often as it has handles that were never called.
C7_RegistrationUntilOwnHandleCalled ==
    \A listener \in AnyListeners :
        Count(OrEmpty(update_listeners), listener)
            = Cardinality({h \in 1..Len(handles) :
                              /\ handles[h].listener = listener
                              /\ handles[h].calls = 0})

-----------------------------------------------------------------------------
(* Properties of the entity services (SpecSvc).                            *)

NotCompleted(items) ==
    Cardinality({i \in 1..Len(items) : items[i].status # COMPLETED})

\* C8: the entity's state is the number of items that are not completed
\* (every item whose status is not COMPLETED counts), and None when the item
\* collection is None.
C8_StateCountsNotCompleted ==
    ha_state = IF todo_items.none THEN NoneVal
               ELSE Some(NotCompleted(todo_items.value))

\* C9: add_item(t) calls the create extension point exactly once, with an
\* item of summary t, status NEEDS_ACTION and no uid; after it succeeded on
\* an empty list, get_items without a filter returns exactly one item, with
\* summary t and status NEEDS_ACTION.
C9_AddCreatesNeedsActionItem ==
    last.op = "add_item" =>
        /\ Len(last.ext) = 1
        /\ last.ext[1].name = "async_create_todo_item"
        /\ last.ext[1].item.summary = last.args[1]
        /\ last.ext[1].item.status = NEEDS_ACTION
        /\ last.ext[1].item.uid = None
        /\ (last.exc = "" /\ Len(todo_items.value) = 1) =>
            LET got == GetItems(todo_items, NoneVal)
            IN  /\ Len(got) = 1
                /\ got[1].summary = last.args[1]
                /\ got[1].status = NEEDS_ACTION

\* add_item("b") succeeded on an empty list: the list holds the one item.
C9_Witness ==
    /\ last.op = "add_item"
    /\ last.args = <<"b">>
    /\ last.exc = ""
    /\ Len(last.ext) = 1
    /\ Len(todo_items.value) = 1
    /\ todo_items.value[1].summary = "b"

C10_Step ==
    (last'.op = "remove_completed_items" /\ impl = "concrete") =>
        LET before == OrEmpty(todo_items)
            after == OrEmpty(todo_items')
        IN  /\ \A i \in 1..Len(after) : after[i].status # COMPLETED
            /\ after = Filter(before,
                              {it \in AllItems : it.status # COMPLETED})
            /\ (\A i \in 1..Len(before) : before[i].status # COMPLETED)
                    => last'.ext = <<>>

\* C10: after remove_completed_items on a concrete list no item with status
\* COMPLETED remains, every item that was not completed is still there, and
\* when no item was completed the delete extension point is not called.
C10_NoCompletedItemRemains == [][C10_Step]_vars

-----------------------------------------------------------------------------
C19_Step ==
    /\ Len(entries') <= 1
    /\ \A i \in 1..Len(entries') : entries'[i].unique_id = UniqueId
    /\ (entries # <<>> /\ submitted') =>
          /\ flow_result' = [type |-> "abort", reason |-> "already_configured"]
          /\ ~validated'.ran
          /\ entries' = entries

(* C19: after any sequence of user-step submissions at most one config     *)
(* entry exists, and once an entry exists every later submission, valid or *)
(* not, aborts as already configured: validation is not run and the        *)
(* entries stay as they were.                                              *)
C19_AtMostOneEntry == [][C19_Step]_vars

\* A submission was aborted while an entry exists.
C19_Witness ==
    /\ Len(entries) = 1
    /\ submitted
    /\ flow_result.type = "abort"

-----------------------------------------------------------------------------
\* The first item of l, in list order, whose uid or summary is text; 0 when
\* there is none.
Matches(text, l) ==
    {i \in 1..Len(l) : l[i].uid = text \/ l[i].summary = text}

FirstMatch(text, l) ==
    LET m == Matches(text, l)
    IN  IF m = {} THEN 0 ELSE CHOOSE i \in m : \A j \in m : i <= j

Resolves(text, l) ==
    LET k == FirstMatch(text, l) IN k # 0 /\ l[k].uid # None

C11_Step ==
    LET l == OrEmpty(todo_items)
        a == last'.args
    IN  /\ (last'.op = "update_item" /\ Matches(a[1], l) # {}) =>
              last'.ext = <<[name |-> "async_update_todo_item",
                             item |-> TodoItem(a[2], l[FirstMatch(a[1], l)].uid,
                                               a[3])]>>
        /\ (last'.op = "remove_item" /\ last'.exc # "ValueError") =>
              /\ Len(last'.ext) = 1
              /\ last'.ext[1].name = "async_delete_todo_items"
              /\ Len(last'.ext[1].uids) = Len(a[1])
              /\ \A i \in 1..Len(a[1]) :
                    /\ Matches(a[1][i], l) # {}
                    /\ last'.ext[1].uids[i] = l[FirstMatch(a[1][i], l)].uid

(* C11: update_item and remove_item resolve a text by a scan in list order *)
(* matching uid or summary, the first match winning: update_item calls the *)
(* update extension point exactly once, with the uid of the first matching *)
(* item, the rename as summary and the status; remove_item, when all texts *)
(* resolve, passes the uid of each text's first match.                     *)
C11_FirstMatchWins == [][C11_Step]_vars

\* update_item has run on a list where two items with different uids match
\* the text, and a status change left the list's uids and summaries alone.
C11_Witness ==
    /\ last.op = "update_item"
    /\ last.exc = ""
    /\ last.args[2] = None
    /\ \E i, j \in Matches(last.args[1], OrEmpty(todo_items)) :
            /\ i < j
            /\ todo_items.value[i].uid # todo_items.value[j].uid
            /\ todo_items.value[i].uid # None
            /\ last.ext[1].item.uid = todo_items.value[i].uid

C16_Step ==
    LET l == OrEmpty(todo_items)
        a == last'.args
        first == [i \in 1..Len(a[1]) |-> FirstMatch(a[1][i], l)]
        resolved == \A i \in 1..Len(a[1]) :
                        first[i] # 0 /\ l[first[i]].uid # None
    IN  /\ (last'.op = "update_item" /\ FirstMatch(a[1], l) = 0) =>
              /\ last'.exc = "ValueError"
              /\ last'.ext = <<>>
              /\ todo_items' = todo_items
        /\ (last'.op = "remove_item" /\ ~resolved) =>
              /\ last'.exc = "ValueError"
              /\ last'.ext = <<>>
              /\ todo_items' = todo_items
        /\ (last'.op = "remove_item" /\ resolved) =>
              /\ last'.exc # "ValueError"
              /\ last'.ext =
                    <<[name |-> "async_delete_todo_items",
                       uids |-> [i \in 1..Len(a[1]) |-> l[first[i]].uid]]>>

(* C16: remove_item and update_item are all-or-nothing on a lookup         *)
(* failure: when a text matches no item, or for remove_item matches an     *)
(* item without a uid, the call fails with the item-not-found error        *)
(* (ValueError), no extension point is called and the list is unchanged;   *)
(* when every text resolves, the delete extension point is called exactly  *)
(* once with the resolved uids in request order.                           *)
C16_AllOrNothing == [][C16_Step]_vars

\* remove_item failed on its second text although its first text resolves
\* to an item with a uid, and that item is still in the list.
C16_Witness ==
    /\ last.op = "remove_item"
    /\ last.exc = "ValueError"
    /\ Len(last.args[1]) = 2
    /\ Resolves(last.args[1][1], OrEmpty(todo_items))
    /\ ~Resolves(last.args[1][2], OrEmpty(todo_items))

-----------------------------------------------------------------------------
WsCommands == {"todo/item/subscribe", "todo/item/list", "todo/item/move"}

\* the messages of msgs that answer the command with this id
ResponsesTo(msgs, id) ==
    LET idx == {i \in 1..Len(msgs) : msgs[i].type = "result" /\ msgs[i].id = id}
        F[n \in 0..Len(msgs)] ==
            IF n = 0 THEN <<>>
            ELSE IF n \in idx THEN Append(F[n - 1], msgs[n]) ELSE F[n - 1]
    IN  F[Len(msgs)]

C12_Step ==
    (last'.op \in WsCommands /\ last'.args[2] # EntityId) =>
        /\ Len(sent') = 1
        /\ sent'[1].type = "result"
        /\ ~sent'[1].success
        /\ sent'[1].id = last'.args[1]
        /\ pushes' = <<>>
        /\ last'.ext = <<>>
        /\ last'.exc = ""
        /\ UNCHANGED <<update_listeners, handles, subscriptions, todo_items,
                       ha_state>>

(* C12: a subscribe, list or move command addressed to an entity id that   *)
(* resolves to no entity sends exactly one error response, with the        *)
(* command's id, and does nothing else: no listener is registered, no      *)
(* handle is stored, no event is pushed, no entity method is called.       *)
C12_UnknownEntityOneError == [][C12_Step]_vars

\* A list command for an unknown entity was answered while a subscription
\* is registered.
C12_Witness ==
    /\ last.op = "todo/item/list"
    /\ last.args[2] # EntityId
    /\ DOMAIN subscriptions # {}
    /\ Truthy(update_listeners)
    /\ Len(sent) = 1

C13_Step ==
    (last'.op = "todo/item/move" /\ last'.args[2] = EntityId) =>
        LET id == last'.args[1]
            lacks == \/ supported_features.none
                     \/ MOVE_TODO_ITEM \notin supported_features.value
        IN  IF lacks
            THEN /\ sent' = <<error_message(id, "not_supported")>>
                 /\ last'.ext = <<>>
                 /\ todo_items' = todo_items
            ELSE /\ last'.ext = <<[name |-> "async_move_todo_item",
                                  uid |-> last'.args[3],
                                  previous_uid |-> last'.args[4]]>>
                 /\ last'.exc = "" =>
                        ResponsesTo(sent', id) = <<result_message(id, None)>>
                 /\ last'.exc = "HomeAssistantError" =>
                        /\ Len(ResponsesTo(sent', id)) = 1
                        /\ ~ResponsesTo(sent', id)[1].success

(* C13: a move command for an existing entity: without the MOVE_TODO_ITEM  *)
(* feature it is answered with the not-supported error and                 *)
(* async_move_todo_item is not called; with it, async_move_todo_item is    *)
(* called exactly once with the uid and previous_uid of the message (None  *)
(* when omitted), and the caller gets exactly one response: success when   *)
(* the call returns, failure when it raises HomeAssistantError.            *)
C13_MoveCalledOnceAndAnswered == [][C13_Step]_vars

\* A move without predecessor went through on a list with a subscriber: the
\* subscriber got its event and the caller one success.
C13_Witness ==
    /\ last.op = "todo/item/move"
    /\ last.exc = ""
    /\ Len(last.ext) = 1
    /\ last.args[4] = None
    /\ Len(sent) = 2
    /\ sent[1].type = "event"

C14_Step ==
    (impl = "base"
        /\ (last'.op \in ExtensionPoints \/ last'.ext # <<>>)) =>
        /\ last'.exc = "NotImplementedError"
        /\ pushes' = <<>>
        /\ \A i \in 1..Len(sent') : sent'[i].type # "event"
        /\ UNCHANGED <<todo_items, update_listeners, handles, ha_state>>

(* C14: on TodoListEntity itself each of the four extension points fails   *)
(* with NotImplementedError for every argument, leaves the items and the   *)
(* listeners as they are and pushes nothing.                               *)
C14_BaseNotImplemented == [][C14_Step]_vars

\* An extension point of the base class was called while a listener is
\* registered.
C14_Witness ==
    /\ impl = "base"
    /\ last.op \in ExtensionPoints
    /\ last.exc = "NotImplementedError"
    /\ Truthy(update_listeners)

-----------------------------------------------------------------------------
\* the elements of l at the indexes idx, in the order of l
Pick(l, idx) ==
    LET F[n \in 0..Len(l)] ==
            IF n = 0 THEN <<>>
            ELSE IF n \in idx THEN Append(F[n - 1], l[n]) ELSE F[n - 1]
    IN  F[Len(l)]

C15_Step ==
    last'.op = "get_items" =>
        LET l == OrEmpty(todo_items)
            f == last'.args[1]
            wanted == IF f.none \/ f.value = <<>> THEN 1..Len(l)
                      ELSE {i \in 1..Len(l) :
                                \E k \in 1..Len(f.value) :
                                    f.value[k] = l[i].status}
        IN  /\ last'.resp = Pick([i \in 1..Len(l) |-> asdict(l[i])], wanted)
            /\ todo_items.none => last'.resp = <<>>
            /\ last'.exc = ""
            /\ last'.ext = <<>>
            /\ pushes' = <<>>
            /\ sent' = <<>>
            /\ UNCHANGED <<todo_items, ha_state, update_listeners, handles>>

(* C15: get_items returns, in list order, exactly the items whose status   *)
(* is in the filter; with the filter absent or empty it returns every      *)
(* item, with the collection absent it returns nothing; it never changes   *)
(* the list and never calls a listener.                                    *)
C15_GetItemsFiltersInOrder == [][C15_Step]_vars

\* get_items with the filter [completed] returned one of the two items of a
\* list, while a subscriber is registered.
C15_Witness ==
    /\ last.op = "get_items"
    /\ last.args[1] = Some(<<COMPLETED>>)
    /\ Len(OrEmpty(todo_items)) = 2
    /\ Len(last.resp) = 1
    /\ Truthy(update_listeners)

-----------------------------------------------------------------------------
C17_Step ==
    (last'.op = "todo/item/subscribe" /\ last'.args[2] = EntityId) =>
        LET id == last'.args[1]
            items == AsDicts(OrEmpty(todo_items))
            mine == {i \in 1..Len(sent') :
                        sent'[i].type = "event" /\ sent'[i].id = id}
        IN  \* the handle is stored, and before anything is sent
            /\ id \in DOMAIN subscriptions'
            /\ handles'[subscriptions'[id]].listener = WsListener(id)
            /\ last'.resp = <<[stored |-> id, messages_before |-> 0]>>
            \* the success result comes before every event message
            /\ sent'[1] = result_message(id, None)
            /\ \A i \in 2..Len(sent') : sent'[i].type = "event"
            \* the subscriber's first event is the initial push
            /\ Pick(sent', mine) = <<event_message(id, items)>>
            \* and every listener registered before gets that push once
            /\ \A i \in 1..Len(OrEmpty(update_listeners)) :
                    LET listener == update_listeners.value[i]
                    IN  PushesTo(pushes', listener)
                            = Count(update_listeners.value, listener)
            /\ \A i \in 1..Len(pushes') : pushes'[i].items = items

(* C17: on a successful subscribe command the handle is stored and the     *)
(* success result is sent before any event message; the subscriber's first *)
(* event message is the initial push, with the collection as it is at      *)
(* subscribe time; and that push is delivered once to every listener       *)
(* registered before.                                                      *)
C17_SubscribeResultThenInitialPush == [][C17_Step]_vars

-----------------------------------------------------------------------------
C18_Step ==
    (last'.op = "unsubscribe" /\ handles[last'.args[1]].calls >= 1) =>
        /\ last'.exc = ""
        /\ update_listeners' = update_listeners

(* C18: an unsubscribe handle is idempotent: a second call, whatever the   *)
(* state (other listeners still registered, the same callback registered   *)
(* twice, no listener left), raises no error and removes no registration   *)
(* other than its own, which the first call removed.                       *)
C18_SecondCallDoesNothing == [][C18_Step]_vars

=============================================================================
